---- MODULE Spec2Model ----
(***************************************************************************)
(* A model of libedbo, a typed client of the EDBO registry: the three      *)
(* enumerations and their renderings, the SearchParams aggregate, the      *)
(* eight query functions (four operations, each in a suspending and a      *)
(* blocking form), the two request helpers and the error type.             *)
(***************************************************************************)
EXTENDS Integers, Sequences, FiniteSets, TLC

(***************************************************************************)
(* Option<T> and Result<T, E>                                              *)
(***************************************************************************)
None == [some |-> FALSE]
Some(x) == [some |-> TRUE, v |-> x]
Ok(x) == [ok |-> TRUE, v |-> x]
Err(e) == [ok |-> FALSE, e |-> e]

(***************************************************************************)
(* State. Each caller is at one place of at most one call: idle, waiting   *)
(* in send(), waiting in json(), or holding the value the call returned.   *)
(***************************************************************************)
Callers == {"a", "b"}

VARIABLES
  pc,        \* caller -> "idle" | "send" | "json" | "done"
  call,      \* caller -> the call in progress: operation, form, SearchParams
  url,       \* caller -> the URL of the GET this call issued
  requests,  \* caller -> the number of GETs this call issued
  response,  \* caller -> what send() ended in
  body,      \* caller -> what reading the body ended in; empty when never read
  result,    \* caller -> what the call returned
  subject,   \* the enumeration value under test
  rendered,  \* its Display rendering
  encoded,   \* its JSON encoding
  decoded,   \* a JSON value and what decoding it into the enumeration gave
  built,     \* the SearchParams a caller is building
  applied    \* the setters applied to it since SearchParams::new(), in order

vars == <<pc, call, url, requests, response, body, result,
          subject, rendered, encoded, decoded, built, applied>>
callVars == <<pc, call, url, requests, response, body, result>>
enumVars == <<subject, rendered, encoded, decoded>>
builderVars == <<built, applied>>

(***************************************************************************)
(* Bounds of the model                                                     *)
(***************************************************************************)
\* ids -IdRange .. IdRange are tried as SearchParams.id (next to the two named ids)
IdRange == 1
\* the last NumRegions variants of Region are tried as SearchParams.region
NumRegions == 2
\* the first NumUniversityCategories variants are tried as university_category
NumUniversityCategories == 2
\* at most MaxSetters setters are applied to one SearchParams
MaxSetters == 4

(***************************************************************************)
(* Enumerations: a declaration is the list of variants, each with its      *)
(* explicit discriminant or none; a variant without one gets the           *)
(* predecessor's discriminant plus one (zero for the first variant).       *)
(***************************************************************************)
Explicit(n, d) == [name |-> n, explicit |-> TRUE, disc |-> d]
Implicit(n) == [name |-> n, explicit |-> FALSE, disc |-> 0]

RegionDecl ==
  << Explicit("RepublicOfCrimea", 1), Explicit("VinnytsiaOblast", 5),
     Explicit("VolynOblast", 7), Explicit("DnipropetrovskOblast", 12),
     Explicit("DonetskOblast", 14), Explicit("ZhytomyrOblast", 18),
     Explicit("ZakarpattiaOblast", 21), Explicit("ZaporizhzhiaOblast", 23),
     Explicit("IvanoFrankivskOblast", 26), Explicit("KyivOblast", 32),
     Explicit("KirovohradOblast", 35), Explicit("LuhanskOblast", 44),
     Explicit("LvivOblast", 46), Explicit("MykolaivOblast", 48),
     Explicit("OdesaOblast", 51), Explicit("PoltavaOblast", 53),
     Explicit("RivneOblast", 56), Explicit("SumyOblast", 59),
     Explicit("TernopilOblast", 61), Explicit("KharkivOblast", 63),
     Explicit("KhersonOblast", 65), Explicit("KhmelnytskyiOblast", 68),
     Explicit("CherkasyOblast", 71), Explicit("ChernivtsiOblast", 73),
     Explicit("ChernihivOblast", 74), Explicit("KyivCity", 80),
     Explicit("SevastopolCity", 85) >>

UniversityCategoryDecl ==
  << Explicit("HigherEducationInstitutions", 1),
     Implicit("VocationalEducationInstitutions"),
     Explicit("SpecializedPreHigherEducationInstitutions", 9),
     Explicit("ScientificInstitutes", 8),
     Explicit("PostgraduateEducationInstitutions", 10) >>

InstitutionCategoryDecl ==
  << Explicit("GeneralSecondaryEducationInstitutions", 3) >>

EnumNames == {"Region", "UniversityCategory", "InstitutionCategory"}

Decl(enum) ==
  CASE enum = "Region" -> RegionDecl
    [] enum = "UniversityCategory" -> UniversityCategoryDecl
    [] enum = "InstitutionCategory" -> InstitutionCategoryDecl

Variants(enum) == {Decl(enum)[i].name : i \in DOMAIN Decl(enum)}

RECURSIVE Discriminant(_, _)
Discriminant(decl, i) ==
  IF decl[i].explicit THEN decl[i].disc
  ELSE IF i = 1 THEN 0
  ELSE Discriminant(decl, i - 1) + 1

\* `*self as i32`
\* the position in the declaration taken for the discriminant
as_i32_position(enum, v) ==
  LET decl == Decl(enum)
  IN CHOOSE k \in DOMAIN decl : decl[k].name = v

as_i32(enum, v) ==
  LET decl == Decl(enum)
      i == CHOOSE k \in DOMAIN decl : decl[k].name = v
  IN Discriminant(decl, i)

(***************************************************************************)
(* Display of an i32: base 10, no padding, a leading '-' when negative.    *)
(***************************************************************************)
Digit(d) ==
  CASE d = 0 -> "0" [] d = 1 -> "1" [] d = 2 -> "2" [] d = 3 -> "3"
    [] d = 4 -> "4" [] d = 5 -> "5" [] d = 6 -> "6" [] d = 7 -> "7"
    [] d = 8 -> "8" [] d = 9 -> "9"

RECURSIVE DecDigits(_)
DecDigits(m) ==
  IF m < 10 THEN Digit(m) ELSE DecDigits(m \div 10) \o Digit(m % 10)

fmt_i32(n) ==
  IF n >= 0 THEN DecDigits(n)
  ELSE LET d == (10 - (n % 10)) % 10
           rest == -((n + d) \div 10)
       IN "-" \o (IF rest = 0 THEN "" ELSE DecDigits(rest)) \o Digit(d)

\* impl fmt::Display for Region / UniversityCategory / InstitutionCategory
Region_fmt(v) == fmt_i32(as_i32("Region", v))
UniversityCategory_fmt(v) == fmt_i32(as_i32("UniversityCategory", v))
InstitutionCategory_fmt(v) == fmt_i32(as_i32("InstitutionCategory", v))

fmt(enum, v) ==
  CASE enum = "Region" -> Region_fmt(v)
    [] enum = "UniversityCategory" -> UniversityCategory_fmt(v)
    [] enum = "InstitutionCategory" -> InstitutionCategory_fmt(v)

(***************************************************************************)
(* JSON values, and the body of a response: bytes that are JSON text or    *)
(* are not.                                                                *)
(***************************************************************************)
JNull == [t |-> "null"]
JStr(s) == [t |-> "str", s |-> s]
JNum(n) == [t |-> "num", n |-> n]
JArr(a) == [t |-> "arr", a |-> a]
JObj(o) == [t |-> "obj", o |-> o]

Malformed == [wf |-> FALSE]
Text(j) == [wf |-> TRUE, json |-> j]

(***************************************************************************)
(* #[derive(Serialize, Deserialize)] on the enumerations: a unit variant   *)
(* is written as its name; it is read from its name, or from a map of one  *)
(* entry, the name to null.                                                *)
(***************************************************************************)
enum_serialize(enum, v) == JStr(v)

enum_deserialize(enum, j) ==
  CASE j.t = "str" ->
         IF j.s \in Variants(enum) THEN Ok(j.s) ELSE Err("unknown variant")
    [] j.t = "obj" ->
         IF Cardinality(DOMAIN j.o) = 1
         THEN LET k == CHOOSE x \in DOMAIN j.o : TRUE
              IN IF k \in Variants(enum) /\ j.o[k] = JNull
                 THEN Ok(k) ELSE Err("unknown variant")
         ELSE Err("invalid value")
    [] OTHER -> Err("invalid type")

(***************************************************************************)
(* Domain records: the fields of each struct, in declaration order.        *)
(***************************************************************************)
F(n, ty) == [name |-> n, ty |-> ty]

UniversityBranch ==
  << F("university_name", "String"), F("university_id", "String"),
     F("region_name", "String"), F("katottgcodeu", "String"),
     F("katottg_name", "String") >>

SpecialityLicense ==
  << F("qualification_group_name", "String"), F("speciality_code", "String"),
     F("speciality_name", "String"), F("specialization_name", "String"),
     F("all_count", "String"), F("all_term_count", "String"),
     F("full_time_count", "String"), F("part_time_count", "String"),
     F("evening_count", "String"), F("certificate", "String"),
     F("certificate_expired", "Option<String>"),
     F("license_description", "String") >>

ProfessionLicense ==
  << F("professions", "String"), F("license_count", "String"),
     F("accreditation", "String"), F("accreditation_expired", "String") >>

Educator ==
  << F("qualification_group_name", "String"), F("speciality_code", "String"),
     F("speciality_name", "String"), F("specialization_name", "String"),
     F("full_time_count", "String"), F("part_time_count", "String"),
     F("external_count", "String"), F("evening_count", "String"),
     F("distance_count", "String") >>

UniversityCommon ==
  << F("university_name", "String"), F("university_id", "String"),
     F("university_parent_id", "Option<String>"),
     F("university_short_name", "String"), F("university_name_en", "String"),
     F("is_from_crimea", "String"), F("registration_year", "String"),
     F("university_type_name", "String"),
     F("university_financing_type_name", "String"),
     F("university_governance_type_name", "String"),
     F("post_index_u", "String"), F("katottgcodeu", "String"),
     F("katottg_name_u", "String"), F("region_name_u", "String"),
     F("university_address_u", "String"), F("university_phone", "String"),
     F("university_email", "String"), F("university_site", "String"),
     F("university_director_post", "String"),
     F("university_director_fio", "String"),
     F("close_date", "Option<String>") >>

University ==
  UniversityCommon \o
  << F("branches", "Vec<UniversityBranch>"), F("facultets", "Vec<String>"),
     F("speciality_licenses", "Vec<SpecialityLicense>"),
     F("profession_licenses", "Vec<ProfessionLicense>"),
     F("educators", "Vec<Educator>") >>

UniversityBrief == UniversityCommon \o << F("primitki", "String") >>

Institution ==
  << F("institution_name", "String"), F("institution_id", "String"),
     F("is_checked", "String"), F("short_name", "String"),
     F("state_name", "String"), F("institution_type_name", "String"),
     F("university_financing_type_name", "String"), F("koatuu_id", "String"),
     F("region_name", "String"), F("koatuu_name", "String"),
     F("address", "String"),
     F("parent_institution_id", "Option<String>"),
     F("governance_name", "String"), F("phone", "String"), F("fax", "String"),
     F("email", "String"), F("website", "String"), F("boss", "String"),
     F("support_name", "String"), F("is_village", "String"),
     F("is_mountain", "String"), F("is_internat", "String"),
     F("approved_count", "Option<String>") >>

StructTypes ==
  {"UniversityBranch", "SpecialityLicense", "ProfessionLicense", "Educator",
   "University", "UniversityBrief", "Institution"}

Fields(ty) ==
  CASE ty = "UniversityBranch" -> UniversityBranch
    [] ty = "SpecialityLicense" -> SpecialityLicense
    [] ty = "ProfessionLicense" -> ProfessionLicense
    [] ty = "Educator" -> Educator
    [] ty = "University" -> University
    [] ty = "UniversityBrief" -> UniversityBrief
    [] ty = "Institution" -> Institution

VecTypes ==
  {"Vec<UniversityBranch>", "Vec<String>", "Vec<SpecialityLicense>",
   "Vec<ProfessionLicense>", "Vec<Educator>", "Vec<UniversityBrief>",
   "Vec<Institution>"}

Elem(ty) ==
  CASE ty = "Vec<UniversityBranch>" -> "UniversityBranch"
    [] ty = "Vec<String>" -> "String"
    [] ty = "Vec<SpecialityLicense>" -> "SpecialityLicense"
    [] ty = "Vec<ProfessionLicense>" -> "ProfessionLicense"
    [] ty = "Vec<Educator>" -> "Educator"
    [] ty = "Vec<UniversityBrief>" -> "UniversityBrief"
    [] ty = "Vec<Institution>" -> "Institution"

(***************************************************************************)
(* #[derive(Deserialize)] on the records, read by serde_json. A String is  *)
(* read from a JSON string; an Option from null (empty) or from the inner  *)
(* type; a Vec from an array whose every element decodes; a struct from an *)
(* object (unknown keys skipped, an absent Option field empty, any other   *)
(* absent field an error) or from an array of exactly its fields in order. *)
(* One failure fails the whole value.                                      *)
(***************************************************************************)
RECURSIVE Deserialize(_, _)
Deserialize(ty, j) ==
  CASE ty = "String" ->
         IF j.t = "str" THEN Ok(j.s) ELSE Err("invalid type")
    [] ty = "Option<String>" ->
         IF j.t = "null" THEN Ok(None)
         ELSE LET r == Deserialize("String", j)
              IN IF r.ok THEN Ok(Some(r.v)) ELSE r
    [] ty \in VecTypes ->
         IF j.t # "arr" THEN Err("invalid type")
         ELSE LET rs == [i \in DOMAIN j.a |-> Deserialize(Elem(ty), j.a[i])]
              IN IF \A i \in DOMAIN rs : rs[i].ok
                 THEN Ok([i \in DOMAIN rs |-> rs[i].v])
                 ELSE Err("invalid element")
    [] ty \in StructTypes ->
         LET fs == Fields(ty)
             names == {fs[i].name : i \in DOMAIN fs}
             tyOf(n) == (CHOOSE i \in DOMAIN fs : fs[i].name = n)
         IN CASE j.t = "obj" ->
                   LET rs == [n \in names |->
                                IF n \in DOMAIN j.o
                                THEN Deserialize(fs[tyOf(n)].ty, j.o[n])
                                ELSE IF fs[tyOf(n)].ty = "Option<String>"
                                     THEN Ok(None)
                                     ELSE Err("missing field")]
                   IN IF \A n \in names : rs[n].ok
                      THEN Ok([n \in names |-> rs[n].v])
                      ELSE Err("invalid field")
              [] j.t = "arr" ->
                   IF Len(j.a) # Len(fs) THEN Err("invalid length")
                   ELSE LET rs == [i \in DOMAIN fs |->
                                     Deserialize(fs[i].ty, j.a[i])]
                        IN IF \A i \in DOMAIN fs : rs[i].ok
                           THEN Ok([n \in names |-> rs[tyOf(n)].v])
                           ELSE Err("invalid field")
              [] OTHER -> Err("invalid type")

\* serde_json::from_slice::<T>: the bytes must be JSON text that decodes to T
from_slice(ty, bytes) ==
  IF bytes.wf THEN Deserialize(ty, bytes.json) ELSE Err("syntax")


(***************************************************************************)
(* error::Error, and the errors of the two libraries that `?` converts.    *)
(***************************************************************************)
ApiError(code) == [kind |-> "ApiError", code |-> code]
NetworkError(e) == [kind |-> "NetworkError", cause |-> e]
ParsingError(e) == [kind |-> "ParsingError", cause |-> e]
OtherError(msg) == [kind |-> "OtherError", msg |-> msg]

reqwest_Error(kind) == [lib |-> "reqwest", kind |-> kind]
serde_json_Error(what) == [lib |-> "serde_json", kind |-> what]

\* the `?` operator: #[from] picks the variant by the type of the error
Error_from(e) ==
  IF e.lib = "reqwest" THEN NetworkError(e) ELSE ParsingError(e)

(***************************************************************************)
(* lib.rs: constants, assert_some and the eight query functions. A query   *)
(* function is modelled up to its call of the request helper: it yields    *)
(* the error it returns early, or the URL it hands to the helper.          *)
(***************************************************************************)
BASE_URL == "https://registry.edbo.gov.ua"
UNIVERSITIES_ENDPOINT == "/api/universities"
UNIVERSITY_ENDPOINT == "/api/university"
INSTITUTIONS_ENDPOINT == "/api/institutions"
SCHOOL_ENDPOINT == "/api/school"

\* the message without the name of the field
assert_some_unnamed(option, field) ==
  IF option.some THEN Ok(option.v)
  ELSE Err(OtherError("parameter cannot be None"))

assert_some(option, field) ==
  IF option.some THEN Ok(option.v)
  ELSE Err(OtherError(field \o " cannot be None"))

search_universities_async(param) ==
  LET ut == assert_some(param.university_category, "university_category")
      lc == assert_some(param.region, "region")
  IN IF ~ut.ok THEN ut
     ELSE IF ~lc.ok THEN lc
     ELSE Ok(BASE_URL \o UNIVERSITIES_ENDPOINT \o "?ut="
             \o UniversityCategory_fmt(ut.v) \o "&lc=" \o Region_fmt(lc.v)
             \o "&exp=json")

\* the region written as ut and the category as lc
search_universities_swapped(param) ==
  LET ut == assert_some(param.university_category, "university_category")
      lc == assert_some(param.region, "region")
  IN IF ~ut.ok THEN ut
     ELSE IF ~lc.ok THEN lc
     ELSE Ok(BASE_URL \o UNIVERSITIES_ENDPOINT \o "?ut="
             \o Region_fmt(lc.v) \o "&lc=" \o UniversityCategory_fmt(ut.v)
             \o "&exp=json")

search_universities(param) ==
  LET ut == assert_some(param.university_category, "university_category")
      lc == assert_some(param.region, "region")
  IN IF ~ut.ok THEN ut
     ELSE IF ~lc.ok THEN lc
     ELSE Ok(BASE_URL \o UNIVERSITIES_ENDPOINT \o "?ut="
             \o UniversityCategory_fmt(ut.v) \o "&lc=" \o Region_fmt(lc.v)
             \o "&exp=json")

search_university_async(param) ==
  LET id == assert_some(param.id, "id")
  IN IF ~id.ok THEN id
     ELSE IF id.v < 1 THEN Err(OtherError("University ID must be positive"))
     ELSE Ok(BASE_URL \o UNIVERSITY_ENDPOINT \o "?id=" \o fmt_i32(id.v)
             \o "&exp=json")

search_university(param) ==
  LET id == assert_some(param.id, "id")
  IN IF ~id.ok THEN id
     ELSE IF id.v < 1 THEN Err(OtherError("University ID must be positive"))
     ELSE Ok(BASE_URL \o UNIVERSITY_ENDPOINT \o "?id=" \o fmt_i32(id.v)
             \o "&exp=json")

\* the region checked before the category
search_institutions_async_region_first(param) ==
  LET lc == assert_some(param.region, "region")
      ut == assert_some(param.institution_category, "institution_category")
  IN IF ~lc.ok THEN lc
     ELSE IF ~ut.ok THEN ut
     ELSE Ok(BASE_URL \o INSTITUTIONS_ENDPOINT \o "?ut="
             \o InstitutionCategory_fmt(ut.v) \o "&lc=" \o Region_fmt(lc.v)
             \o "&exp=json")

search_institutions_async(param) ==
  LET ut == assert_some(param.institution_category, "institution_category")
      lc == assert_some(param.region, "region")
  IN IF ~ut.ok THEN ut
     ELSE IF ~lc.ok THEN lc
     ELSE Ok(BASE_URL \o INSTITUTIONS_ENDPOINT \o "?ut="
             \o InstitutionCategory_fmt(ut.v) \o "&lc=" \o Region_fmt(lc.v)
             \o "&exp=json")

search_institutions(param) ==
  LET ut == assert_some(param.institution_category, "institution_category")
      lc == assert_some(param.region, "region")
  IN IF ~ut.ok THEN ut
     ELSE IF ~lc.ok THEN lc
     ELSE Ok(BASE_URL \o INSTITUTIONS_ENDPOINT \o "?ut="
             \o InstitutionCategory_fmt(ut.v) \o "&lc=" \o Region_fmt(lc.v)
             \o "&exp=json")

search_school_async(param) ==
  LET id == assert_some(param.id, "id")
  IN IF ~id.ok THEN id
     ELSE IF id.v < 1 THEN Err(OtherError("School ID must be positive"))
     ELSE Ok(BASE_URL \o SCHOOL_ENDPOINT \o "?id=" \o fmt_i32(id.v)
             \o "&exp=json")

\* the id compared with 0 in place of 1
search_school_nonnegative(param) ==
  LET id == assert_some(param.id, "id")
  IN IF ~id.ok THEN id
     ELSE IF id.v < 0 THEN Err(OtherError("School ID must be positive"))
     ELSE Ok(BASE_URL \o SCHOOL_ENDPOINT \o "?id=" \o fmt_i32(id.v)
             \o "&exp=json")

search_school(param) ==
  LET id == assert_some(param.id, "id")
  IN IF ~id.ok THEN id
     ELSE IF id.v < 1 THEN Err(OtherError("School ID must be positive"))
     ELSE Ok(BASE_URL \o SCHOOL_ENDPOINT \o "?id=" \o fmt_i32(id.v)
             \o "&exp=json")

Ops == {"universities", "university", "institutions", "school"}
Forms == {"async", "blocking"}

\* the public function of an operation and a form
Query(op, form, param) ==
  CASE op = "universities" /\ form = "async" -> search_universities_async(param)
    [] op = "universities" /\ form = "blocking" -> search_universities(param)
    [] op = "university" /\ form = "async" -> search_university_async(param)
    [] op = "university" /\ form = "blocking" -> search_university(param)
    [] op = "institutions" /\ form = "async" -> search_institutions_async(param)
    [] op = "institutions" /\ form = "blocking" -> search_institutions(param)
    [] op = "school" /\ form = "async" -> search_school_async(param)
    [] op = "school" /\ form = "blocking" -> search_school(param)

\* the T of make_request::<T>, from the return type of the public function
ResultType(op) ==
  CASE op = "universities" -> "Vec<UniversityBrief>"
    [] op = "university" -> "University"
    [] op = "institutions" -> "Vec<Institution>"
    [] op = "school" -> "Institution"

(***************************************************************************)
(* make_request and make_request_blocking, each in the two steps its two   *)
(* waits cut it into. send() ends in a transport error or in a response,   *)
(* known by its status; json() reads the body, which may fail in           *)
(* transport, and decodes it, reporting a decode failure as an error of    *)
(* the HTTP library.                                                       *)
(***************************************************************************)
is_success(status) == 200 <= status /\ status < 300

\* Response::json::<T>()
Response_json(ty, read) ==
  IF ~read.ok THEN read
  ELSE LET r == from_slice(ty, read.v)
       IN IF r.ok THEN r ELSE Err(reqwest_Error("decode"))

\* a step's verdict: the call returns `result`, or goes on to read the body
Returns(res) == [done |-> TRUE, result |-> res]
GoesOn == [done |-> FALSE]

\* every status below 400 taken for success
make_request_send_below_400(sent) ==
  IF ~sent.ok THEN Returns(Err(Error_from(sent.e)))
  ELSE IF sent.v < 400 THEN GoesOn
  ELSE Returns(Err(ApiError(sent.v)))

make_request_send(sent) ==
  IF ~sent.ok THEN Returns(Err(Error_from(sent.e)))
  ELSE IF is_success(sent.v) THEN GoesOn
  ELSE Returns(Err(ApiError(sent.v)))

\* one connection for all calls: a body read while another call reads fails
make_request_json_shared(ty, read) ==
  LET r == Response_json(ty, read)
  IN IF Cardinality({d \in Callers : pc[d] = "json"}) > 1
     THEN Err(Error_from(reqwest_Error("body")))
     ELSE IF r.ok THEN Ok(r.v) ELSE Err(Error_from(r.e))

make_request_json(ty, read) ==
  LET r == Response_json(ty, read)
  IN IF r.ok THEN Ok(r.v) ELSE Err(Error_from(r.e))

\* the status left unchecked
make_request_blocking_send_unchecked(sent) ==
  IF ~sent.ok THEN Returns(Err(Error_from(sent.e)))
  ELSE GoesOn

make_request_blocking_send(sent) ==
  IF ~sent.ok THEN Returns(Err(Error_from(sent.e)))
  ELSE IF is_success(sent.v) THEN GoesOn
  ELSE Returns(Err(ApiError(sent.v)))

make_request_blocking_json(ty, read) ==
  LET r == Response_json(ty, read)
  IN IF r.ok THEN Ok(r.v) ELSE Err(Error_from(r.e))


(***************************************************************************)
(* search.rs: SearchParams::new and the four setters. A setter takes the   *)
(* aggregate by value, stores Some(value) in one field and returns it.     *)
(***************************************************************************)
SearchParams_new ==
  [id |-> None, region |-> None, university_category |-> None,
   institution_category |-> None]

with_id(self, id) == [self EXCEPT !.id = Some(id)]

\* the region stored in a fresh aggregate: the other slots are lost
with_region_fresh(self, region) ==
  [SearchParams_new EXCEPT !.region = Some(region)]

with_region(self, region) == [self EXCEPT !.region = Some(region)]

with_university_category(self, university_category) ==
  [self EXCEPT !.university_category = Some(university_category)]

with_institution_category(self, institution_category) ==
  [self EXCEPT !.institution_category = Some(institution_category)]

(***************************************************************************)
(* Inputs: the SearchParams a caller passes, what send() ends in, and what *)
(* reading the body ends in.                                               *)
(***************************************************************************)
\* the id of the documentation examples, and the largest i32
DocId == 1234
I32Max == 2147483647

Opt(S) == {None} \cup {Some(x) : x \in S}

LastVariants(decl, n) == {decl[i].name : i \in (Len(decl) - n + 1)..Len(decl)}
FirstVariants(decl, n) == {decl[i].name : i \in 1..n}

SearchParams(ids, regions, ucats, icats) ==
  [id : Opt(ids), region : Opt(regions), university_category : Opt(ucats),
   institution_category : Opt(icats)]

Params ==
  SearchParams((-IdRange..IdRange) \cup {DocId, I32Max},
               LastVariants(RegionDecl, NumRegions),
               FirstVariants(UniversityCategoryDecl, NumUniversityCategories),
               Variants("InstitutionCategory"))

Statuses == {200, 204, 301, 404, 500, 503}

SendOutcomes == {Err(reqwest_Error("request"))} \cup {Ok(st) : st \in Statuses}

\* a JSON value that decodes to a field of the given type
Sample(ty) ==
  IF ty \in VecTypes THEN JArr(<<>>) ELSE JStr("x")

\* an object with every field of the struct
Full(ty) ==
  LET fs == Fields(ty)
      tyOf(n) == fs[CHOOSE i \in DOMAIN fs : fs[i].name = n].ty
  IN JObj([n \in {fs[i].name : i \in DOMAIN fs} |-> Sample(tyOf(n))])

Without(j, n) == JObj([k \in DOMAIN j.o \ {n} |-> j.o[k]])
With(j, n, x) ==
  JObj([k \in DOMAIN j.o \cup {n} |-> IF k = n THEN x ELSE j.o[k]])

Bodies ==
  { Malformed,
    Text(JArr(<<>>)),
    Text(JArr(<<Full("UniversityBrief")>>)),
    Text(JArr(<<Full("UniversityBrief"),
                Without(Full("UniversityBrief"), "primitki")>>)),
    Text(JArr(<<With(Without(Full("Institution"), "approved_count"),
                     "parent_institution_id", JNull)>>)),
    Text(Full("University")),
    Text(With(With(Full("University"), "branches",
                   JArr(<<Full("UniversityBranch")>>)),
              "unknown_field", JNum(1))),
    Text(Without(Full("University"), "university_id")),
    Text(With(Full("University"), "branches",
              JArr(<<Without(Full("UniversityBranch"), "region_name")>>))),
    Text(Full("Institution")),
    Text(With(Full("Institution"), "institution_id", JNum(7))) }

ReadOutcomes == {Err(reqwest_Error("body"))} \cup {Ok(b) : b \in Bodies}

\* the inputs of the specification with two concurrent callers
ConcParams ==
  LET one == SearchParams({0, 1}, {"KyivCity"}, {"ScientificInstitutes"},
                          Variants("InstitutionCategory"))
  IN {p \in one : p.region.some = p.university_category.some
                  /\ p.region.some = p.institution_category.some}

ConcSendOutcomes == {Err(reqwest_Error("request")), Ok(200), Ok(503)}

ConcReadOutcomes ==
  {Err(reqwest_Error("body")), Ok(Malformed), Ok(Text(JArr(<<>>))),
   Ok(Text(Full("Institution")))}


NoSubject == [enum |-> "", v |-> ""]

Init ==
  /\ pc = [c \in Callers |-> "idle"]
  /\ call = [c \in Callers |-> None]
  /\ url = [c \in Callers |-> None]
  /\ requests = [c \in Callers |-> 0]
  /\ response = [c \in Callers |-> None]
  /\ body = [c \in Callers |-> None]
  /\ result = [c \in Callers |-> None]
  /\ subject = NoSubject
  /\ rendered = None
  /\ encoded = None
  /\ decoded = None
  /\ built = SearchParams_new
  /\ applied = <<>>

\* the caller calls a query function: validation, then the URL and the GET
Invoke(c, op, form, param) ==
  /\ pc[c] = "idle"
  /\ call' = [call EXCEPT ![c] = Some([op |-> op, form |-> form, param |-> param])]
  /\ LET q == Query(op, form, param)
     IN IF q.ok
        THEN /\ url' = [url EXCEPT ![c] = Some(q.v)]
             /\ requests' = [requests EXCEPT ![c] = @ + 1]
             /\ pc' = [pc EXCEPT ![c] = "send"]
             /\ result' = result
        ELSE /\ result' = [result EXCEPT ![c] = Some(q)]
             /\ pc' = [pc EXCEPT ![c] = "done"]
             /\ UNCHANGED <<url, requests>>
  /\ UNCHANGED <<response, body>>
  /\ UNCHANGED enumVars
  /\ UNCHANGED builderVars

\* send() ends: a transport error, a status that is not 2xx, or on to json()
SendReturns(c, sent) ==
  /\ pc[c] = "send"
  /\ response' = [response EXCEPT ![c] = Some(sent)]
  /\ LET step == IF call[c].v.form = "async"
                 THEN make_request_send(sent)
                 ELSE make_request_blocking_send(sent)
     IN IF step.done
        THEN /\ result' = [result EXCEPT ![c] = Some(step.result)]
             /\ pc' = [pc EXCEPT ![c] = "done"]
        ELSE /\ pc' = [pc EXCEPT ![c] = "json"]
             /\ result' = result
  /\ UNCHANGED <<call, url, requests, body>>
  /\ UNCHANGED enumVars
  /\ UNCHANGED builderVars

\* json() ends: the body was read, or not, and decoded, or not
JsonReturns(c, read) ==
  /\ pc[c] = "json"
  /\ body' = [body EXCEPT ![c] = Some(read)]
  /\ LET ty == ResultType(call[c].v.op)
         r == IF call[c].v.form = "async"
              THEN make_request_json(ty, read)
              ELSE make_request_blocking_json(ty, read)
     IN result' = [result EXCEPT ![c] = Some(r)]
  /\ pc' = [pc EXCEPT ![c] = "done"]
  /\ UNCHANGED <<call, url, requests, response>>
  /\ UNCHANGED enumVars
  /\ UNCHANGED builderVars

\* the caller takes the returned value; nothing of the call is kept
Return(c) ==
  /\ pc[c] = "done"
  /\ pc' = [pc EXCEPT ![c] = "idle"]
  /\ call' = [call EXCEPT ![c] = None]
  /\ url' = [url EXCEPT ![c] = None]
  /\ requests' = [requests EXCEPT ![c] = 0]
  /\ response' = [response EXCEPT ![c] = None]
  /\ body' = [body EXCEPT ![c] = None]
  /\ result' = [result EXCEPT ![c] = None]
  /\ UNCHANGED enumVars
  /\ UNCHANGED builderVars

\* one caller, the wide inputs
Next ==
  \/ \E op \in Ops, form \in Forms, p \in Params : Invoke("a", op, form, p)
  \/ \E sent \in SendOutcomes : SendReturns("a", sent)
  \/ \E read \in ReadOutcomes : JsonReturns("a", read)
  \/ Return("a")

Spec == Init /\ [][Next]_vars

\* two callers whose calls interleave, the narrow inputs
NextConc ==
  \E c \in Callers :
    \/ \E op \in Ops, form \in Forms, p \in ConcParams : Invoke(c, op, form, p)
    \/ \E sent \in ConcSendOutcomes : SendReturns(c, sent)
    \/ \E read \in ConcReadOutcomes : JsonReturns(c, read)
    \/ Return(c)

SpecConc == Init /\ [][NextConc]_vars

(***************************************************************************)
(* The enumerations on their own: one value is rendered, encoded, and      *)
(* JSON values are decoded into its enumeration.                           *)
(***************************************************************************)
Subjects == {[enum |-> e, v |-> x] : e \in EnumNames, x \in Variants("Region")
                \cup Variants("UniversityCategory")
                \cup Variants("InstitutionCategory")}

JsonInputs(enum) ==
  {JNull}
  \cup {JNum(as_i32(enum, x)) : x \in Variants(enum)}
  \cup {JStr(x) : x \in Variants(enum)}
  \cup {JStr(fmt(enum, x)) : x \in Variants(enum)}
  \cup {JObj([k \in {x} |-> JNull]) : x \in Variants(enum)}

InitEnum ==
  /\ pc = [c \in Callers |-> "idle"]
  /\ call = [c \in Callers |-> None]
  /\ url = [c \in Callers |-> None]
  /\ requests = [c \in Callers |-> 0]
  /\ response = [c \in Callers |-> None]
  /\ body = [c \in Callers |-> None]
  /\ result = [c \in Callers |-> None]
  /\ subject \in {s \in Subjects : s.v \in Variants(s.enum)}
  /\ rendered = None
  /\ encoded = None
  /\ decoded = None
  /\ built = SearchParams_new
  /\ applied = <<>>

Display ==
  /\ rendered' = Some(fmt(subject.enum, subject.v))
  /\ UNCHANGED <<subject, encoded, decoded>>
  /\ UNCHANGED callVars
  /\ UNCHANGED builderVars

ToJson ==
  /\ encoded' = Some(enum_serialize(subject.enum, subject.v))
  /\ UNCHANGED <<subject, rendered, decoded>>
  /\ UNCHANGED callVars
  /\ UNCHANGED builderVars

FromJson(j) ==
  /\ decoded' = Some([from |-> j, to |-> enum_deserialize(subject.enum, j)])
  /\ UNCHANGED <<subject, rendered, encoded>>
  /\ UNCHANGED callVars
  /\ UNCHANGED builderVars

NextEnum ==
  \/ Display
  \/ ToJson
  \/ \E j \in JsonInputs(subject.enum) : FromJson(j)

SpecEnum == InitEnum /\ [][NextEnum]_vars


(***************************************************************************)
(* The parameter builder on its own: a caller starts from                  *)
(* SearchParams::new() and applies setters, in any order and any number    *)
(* of times up to the bound.                                               *)
(***************************************************************************)
BuilderIds == {0, DocId}
BuilderRegions == LastVariants(RegionDecl, NumRegions)
BuilderUniversityCategories ==
  FirstVariants(UniversityCategoryDecl, NumUniversityCategories)
BuilderInstitutionCategories == Variants("InstitutionCategory")

Setter(slot, x) == [slot |-> slot, value |-> x]

New ==
  /\ built' = SearchParams_new
  /\ applied' = <<>>
  /\ UNCHANGED callVars
  /\ UNCHANGED enumVars

WithId(id) ==
  /\ Len(applied) < MaxSetters
  /\ built' = with_id(built, id)
  /\ applied' = Append(applied, Setter("id", id))
  /\ UNCHANGED callVars
  /\ UNCHANGED enumVars

WithRegion(region) ==
  /\ Len(applied) < MaxSetters
  /\ built' = with_region(built, region)
  /\ applied' = Append(applied, Setter("region", region))
  /\ UNCHANGED callVars
  /\ UNCHANGED enumVars

WithUniversityCategory(university_category) ==
  /\ Len(applied) < MaxSetters
  /\ built' = with_university_category(built, university_category)
  /\ applied' =
       Append(applied, Setter("university_category", university_category))
  /\ UNCHANGED callVars
  /\ UNCHANGED enumVars

WithInstitutionCategory(institution_category) ==
  /\ Len(applied) < MaxSetters
  /\ built' = with_institution_category(built, institution_category)
  /\ applied' =
       Append(applied, Setter("institution_category", institution_category))
  /\ UNCHANGED callVars
  /\ UNCHANGED enumVars

NextBuilder ==
  \/ New
  \/ \E id \in BuilderIds : WithId(id)
  \/ \E r \in BuilderRegions : WithRegion(r)
  \/ \E u \in BuilderUniversityCategories : WithUniversityCategory(u)
  \/ \E i \in BuilderInstitutionCategories : WithInstitutionCategory(i)

SpecBuilder == Init /\ [][NextBuilder]_vars

(***************************************************************************)
(* What the specification document says of an operation and of the         *)
(* enumerations, for the properties below.                                 *)
(***************************************************************************)
\* the required parameters of an operation, in the order they are checked
Required(op) ==
  CASE op = "universities" -> <<"university_category", "region">>
    [] op = "university" -> <<"id">>
    [] op = "institutions" -> <<"institution_category", "region">>
    [] op = "school" -> <<"id">>

Absent(op, param) ==
  {i \in DOMAIN Required(op) : ~param[Required(op)[i]].some}

FirstAbsent(op, param) ==
  Required(op)[CHOOSE i \in Absent(op, param) :
                 \A k \in Absent(op, param) : i <= k]

IdOps == {"university", "school"}

\* the parameters pass the operation's validation
Valid(op, param) ==
  /\ Absent(op, param) = {}
  /\ op \in IdOps => param.id.v >= 1

\* the text holds the word, with one of the known texts before and after it
Affixes ==
  {"", " cannot be None", " must be positive", " is required", "missing ",
   "University ", "School "}
Contains(text, word) ==
  \E pre \in Affixes, suf \in Affixes : text = pre \o word \o suf

\* the code the document assigns to each variant
DocCode(enum, v) ==
  CASE enum = "UniversityCategory" ->
         (CASE v = "HigherEducationInstitutions" -> 1
            [] v = "VocationalEducationInstitutions" -> 2
            [] v = "ScientificInstitutes" -> 8
            [] v = "SpecializedPreHigherEducationInstitutions" -> 9
            [] v = "PostgraduateEducationInstitutions" -> 10)
    [] enum = "InstitutionCategory" ->
         (CASE v = "GeneralSecondaryEducationInstitutions" -> 3)
    [] enum = "Region" ->
         (CASE v = "RepublicOfCrimea" -> 1 [] v = "VinnytsiaOblast" -> 5
            [] v = "VolynOblast" -> 7 [] v = "DnipropetrovskOblast" -> 12
            [] v = "DonetskOblast" -> 14 [] v = "ZhytomyrOblast" -> 18
            [] v = "ZakarpattiaOblast" -> 21 [] v = "ZaporizhzhiaOblast" -> 23
            [] v = "IvanoFrankivskOblast" -> 26 [] v = "KyivOblast" -> 32
            [] v = "KirovohradOblast" -> 35 [] v = "LuhanskOblast" -> 44
            [] v = "LvivOblast" -> 46 [] v = "MykolaivOblast" -> 48
            [] v = "OdesaOblast" -> 51 [] v = "PoltavaOblast" -> 53
            [] v = "RivneOblast" -> 56 [] v = "SumyOblast" -> 59
            [] v = "TernopilOblast" -> 61 [] v = "KharkivOblast" -> 63
            [] v = "KhersonOblast" -> 65 [] v = "KhmelnytskyiOblast" -> 68
            [] v = "CherkasyOblast" -> 71 [] v = "ChernivtsiOblast" -> 73
            [] v = "ChernihivOblast" -> 74 [] v = "KyivCity" -> 80
            [] v = "SevastopolCity" -> 85)

Called(c) == call[c].some
Op(c) == call[c].v.op
Form(c) == call[c].v.form
Param(c) == call[c].v.param
Failed(c) == pc[c] = "done" /\ result[c].some /\ ~result[c].v.ok
FailedWith(c, kind) == Failed(c) /\ result[c].v.e.kind = kind

(***************************************************************************)
(* C1. A call, of any of the four operations in either form, whose         *)
(* SearchParams lacks a parameter the operation requires has returned an   *)
(* Other error whose message contains the name of a parameter that is      *)
(* missing, and it has issued no HTTP request.                             *)
(***************************************************************************)
C1_RequiredParameterGating ==
  \A c \in Callers :
    Called(c) /\ Absent(Op(c), Param(c)) # {} =>
      /\ FailedWith(c, "OtherError")
      /\ \E i \in Absent(Op(c), Param(c)) :
           Contains(result[c].v.e.msg, Required(Op(c))[i])
      /\ requests[c] = 0
      /\ url[c] = None
      /\ response[c] = None

\* list institutions, blocking, with the category but without the region
C1_Witness ==
  /\ Called("a") /\ Op("a") = "institutions" /\ Form("a") = "blocking"
  /\ Param("a").institution_category.some /\ ~Param("a").region.some
  /\ result["a"] = Some(Err(OtherError("region cannot be None")))
  /\ requests["a"] = 0


(***************************************************************************)
(* C2. After a 2xx response whose body cannot be decoded into the result   *)
(* type of the operation, the call has failed with the Parsing error kind  *)
(* and has returned no record.                                             *)
(***************************************************************************)
Undecodable(c) ==
  /\ Called(c) /\ pc[c] = "done"
  /\ response[c].some /\ response[c].v.ok /\ response[c].v.v \in 200..299
  /\ body[c].some /\ body[c].v.ok
  /\ ~from_slice(ResultType(Op(c)), body[c].v.v).ok

C2_DecodeFailureIsParsingError ==
  \A c \in Callers : Undecodable(c) => FailedWith(c, "ParsingError")

IdErrors ==
  {OtherError("id cannot be None"),
   OtherError("University ID must be positive"),
   OtherError("School ID must be positive")}

C4_IdValidation ==
  \A c \in Callers :
    Called(c) /\ Op(c) \in IdOps =>
      LET id == Param(c).id
      IN /\ ~id.some =>
              /\ result[c] = Some(Err(OtherError("id cannot be None")))
              /\ requests[c] = 0
         /\ id.some /\ id.v < 1 =>
              /\ FailedWith(c, "OtherError")
              /\ Op(c) = "university" =>
                   result[c].v.e.msg = "University ID must be positive"
              /\ Op(c) = "school" =>
                   Contains(result[c].v.e.msg, "School ID")
              /\ requests[c] = 0
         /\ id.some /\ id.v >= 1 =>
              /\ requests[c] = 1
              /\ result[c].some /\ ~result[c].v.ok =>
                   result[c].v.e \notin IdErrors

\* get school, blocking, with id = 0
C4_Witness ==
  /\ Called("a") /\ Op("a") = "school" /\ Form("a") = "blocking"
  /\ Param("a").id = Some(0)
  /\ result["a"] = Some(Err(OtherError("School ID must be positive")))
  /\ requests["a"] = 0

(***************************************************************************)
(* C5. A call that passes validation requests exactly the base URL         *)
(* followed by the path and query of its operation, with the codes of the  *)
(* category and the region and the id in decimal, in the fixed order, and  *)
(* ending in &exp=json; a call that does not pass requests nothing.        *)
(***************************************************************************)
Template(op, param) ==
  CASE op = "universities" ->
         "https://registry.edbo.gov.ua/api/universities?ut="
         \o ToString(DocCode("UniversityCategory", param.university_category.v))
         \o "&lc=" \o ToString(DocCode("Region", param.region.v))
         \o "&exp=json"
    [] op = "university" ->
         "https://registry.edbo.gov.ua/api/university?id="
         \o ToString(param.id.v) \o "&exp=json"
    [] op = "institutions" ->
         "https://registry.edbo.gov.ua/api/institutions?ut="
         \o ToString(DocCode("InstitutionCategory", param.institution_category.v))
         \o "&lc=" \o ToString(DocCode("Region", param.region.v))
         \o "&exp=json"
    [] op = "school" ->
         "https://registry.edbo.gov.ua/api/school?id="
         \o ToString(param.id.v) \o "&exp=json"

C5_UrlComposition ==
  \A c \in Callers :
    Called(c) =>
      IF Valid(Op(c), Param(c))
      THEN url[c] = Some(Template(Op(c), Param(c)))
      ELSE url[c] = None

\* list universities of vocational education in Kyiv City
C5_Witness ==
  /\ Called("a") /\ Op("a") = "universities" /\ Form("a") = "blocking"
  /\ url["a"] =
       Some("https://registry.edbo.gov.ua/api/universities?ut=2&lc=80&exp=json")

\* get university with the largest id
C5_WitnessId ==
  /\ Called("a") /\ Op("a") = "university"
  /\ url["a"] =
       Some("https://registry.edbo.gov.ua/api/university?id=2147483647&exp=json")

(***************************************************************************)
(* C8. A missing-field error names the first absent field in the check     *)
(* order of the operation, and reads "{field} cannot be None".             *)
(***************************************************************************)
C8_FirstAbsentField ==
  \A c \in Callers :
    Called(c) /\ Absent(Op(c), Param(c)) # {} =>
      result[c] =
        Some(Err(OtherError(FirstAbsent(Op(c), Param(c)) \o " cannot be None")))

\* list universities with neither the category nor the region
C8_Witness ==
  /\ Called("a") /\ Op("a") = "universities"
  /\ ~Param("a").university_category.some /\ ~Param("a").region.some
  /\ result["a"] = Some(Err(OtherError("university_category cannot be None")))

\* list institutions with the category and without the region
C8_WitnessSecond ==
  /\ Called("a") /\ Op("a") = "institutions"
  /\ Param("a").institution_category.some /\ ~Param("a").region.some
  /\ result["a"] = Some(Err(OtherError("region cannot be None")))


(***************************************************************************)
(* C6. JSON-encoding a variant of an enumeration yields its integer code,  *)
(* not its name, and JSON-decoding that integer code yields the variant.   *)
(***************************************************************************)
C6_EnumJsonRoundTrip ==
  LET code == JNum(DocCode(subject.enum, subject.v))
  IN /\ encoded.some => encoded.v = code
     /\ decoded.some /\ decoded.v.from = code => decoded.v.to = Ok(subject.v)

(***************************************************************************)
(* C7. The rendering of a variant is the unpadded base-10 string of the    *)
(* code the document assigns to it, never its name; the named variants     *)
(* render as "2", "8", "9", "80" and "3"; distinct variants of one         *)
(* enumeration render to distinct strings.                                 *)
(***************************************************************************)
Named ==
  [VocationalEducationInstitutions |-> "2", ScientificInstitutes |-> "8",
   SpecializedPreHigherEducationInstitutions |-> "9", KyivCity |-> "80",
   GeneralSecondaryEducationInstitutions |-> "3"]

C7_EnumRendering ==
  rendered.some =>
    /\ rendered.v = ToString(DocCode(subject.enum, subject.v))
    /\ rendered.v # subject.v
    /\ subject.v \in DOMAIN Named => rendered.v = Named[subject.v]
    /\ \A w \in Variants(subject.enum) \ {subject.v} :
         fmt(subject.enum, w) # rendered.v

\* the variant declared without a discriminant
C7_Witness ==
  /\ subject = [enum |-> "UniversityCategory",
                v |-> "VocationalEducationInstitutions"]
  /\ rendered = Some("2")

\* a variant declared out of the order of the codes
C7_WitnessScientific ==
  /\ subject = [enum |-> "UniversityCategory", v |-> "ScientificInstitutes"]
  /\ rendered = Some("8")


(***************************************************************************)
(* C9. A call of the suspending form and a call of the blocking form of    *)
(* one operation, given the same SearchParams and the same behaviour of    *)
(* the server, are at the same place with the same outcome: the same       *)
(* validation error, the same URL, the same error or the same value.       *)
(***************************************************************************)
SameInputs(c, d) ==
  /\ Called(c) /\ Called(d)
  /\ Op(c) = Op(d) /\ Param(c) = Param(d)
  /\ response[c] = response[d]
  /\ body[c] = body[d]

C9_FormsAgree ==
  \A c, d \in Callers :
    SameInputs(c, d) /\ Form(c) = "async" /\ Form(d) = "blocking" =>
      /\ pc[c] = pc[d]
      /\ result[c] = result[d]
      /\ url[c] = url[d]
      /\ requests[c] = requests[d]

\* both forms of get school given a 503
C9_Witness ==
  /\ SameInputs("a", "b") /\ Form("a") = "async" /\ Form("b") = "blocking"
  /\ Op("a") = "school"
  /\ response["a"] = Some(Ok(503))
  /\ result["a"] = Some(Err(ApiError(503)))
  /\ result["b"] = result["a"]

\* both forms of list institutions given a body that is not JSON
C9_WitnessDecode ==
  /\ SameInputs("a", "b") /\ Form("a") = "async" /\ Form("b") = "blocking"
  /\ Op("a") = "institutions"
  /\ body["a"] = Some(Ok(Malformed))
  /\ pc["a"] = "done" /\ pc["b"] = "done"
  /\ result["b"] = result["a"]

(***************************************************************************)
(* C10. A call goes from validation to the request, to the status, to the  *)
(* decoding, to its return, and never back; it issues one request when     *)
(* validation passes and none when it fails; no failure is retried; and    *)
(* what a call returns is decided by its own parameters and its own        *)
(* response, whatever other calls came before or run beside it.            *)
(***************************************************************************)
OneRequest ==
  \A c \in Callers :
    /\ requests[c] <= 1
    /\ Called(c) => requests[c] = (IF Valid(Op(c), Param(c)) THEN 1 ELSE 0)
    /\ ~Called(c) => requests[c] = 0 /\ pc[c] = "idle"
    /\ result[c].some <=> pc[c] = "done"

Independent ==
  \A c, d \in Callers :
    Called(c) /\ call[c] = call[d] /\ response[c] = response[d]
      /\ body[c] = body[d] =>
        pc[c] = pc[d] /\ result[c] = result[d] /\ url[c] = url[d]

Linear ==
  \A c \in Callers :
    /\ pc'[c] # pc[c] =>
         \/ pc[c] = "idle" /\ pc'[c] \in {"send", "done"}
         \/ pc[c] = "send" /\ pc'[c] \in {"json", "done"}
         \/ pc[c] = "json" /\ pc'[c] = "done"
         \/ pc[c] = "done" /\ pc'[c] = "idle"
    /\ requests'[c] > requests[c] => pc[c] = "idle" /\ pc'[c] = "send"
    /\ pc[c] # "idle" /\ pc'[c] # "idle" =>
         call'[c] = call[c] /\ url'[c] = url[c]

OwnStateOnly ==
  \A c, d \in Callers :
    c # d /\ <<pc[c], call[c], url[c], requests[c], response[c], body[c],
               result[c]>>
             # <<pc'[c], call'[c], url'[c], requests'[c], response'[c],
                 body'[c], result'[c]>>
      => <<pc[d], call[d], url[d], requests[d], response[d], body[d],
           result[d]>>
         = <<pc'[d], call'[d], url'[d], requests'[d], response'[d],
             body'[d], result'[d]>>

C10_WitnessInterleaved ==
  /\ call["a"] = call["b"] /\ Called("a") /\ Valid(Op("a"), Param("a"))
  /\ pc["a"] = "done" /\ result["a"].v.ok
  /\ pc["b"] = "json"


(***************************************************************************)
(* C11. SearchParams::new() has all four slots empty; each setter sets     *)
(* its own slot to the given value and leaves the other three unchanged;   *)
(* and setters for different slots, applied in any order, yield the same   *)
(* aggregate.                                                              *)
(***************************************************************************)
Slots == {"id", "region", "university_category", "institution_category"}

\* the setter of a slot, applied
Apply(self, s) ==
  CASE s.slot = "id" -> with_id(self, s.value)
    [] s.slot = "region" -> with_region(self, s.value)
    [] s.slot = "university_category" ->
         with_university_category(self, s.value)
    [] s.slot = "institution_category" ->
         with_institution_category(self, s.value)

RECURSIVE ApplyAll(_, _)
ApplyAll(self, ss) ==
  IF ss = <<>> THEN self ELSE ApplyAll(Apply(self, Head(ss)), Tail(ss))

Orders(n) ==
  {p \in [1..n -> 1..n] : \A i, j \in 1..n : i # j => p[i] # p[j]}

DifferentSlots(ss) ==
  \A i, j \in DOMAIN ss : i # j => ss[i].slot # ss[j].slot

NewIsEmpty ==
  applied = <<>> => \A k \in Slots : built[k] = None

AnyOrder ==
  DifferentSlots(applied) =>
    \A p \in Orders(Len(applied)) :
      ApplyAll(SearchParams_new, [i \in DOMAIN applied |-> applied[p[i]]])
        = built

OwnSlotOnly ==
  Len(applied') = Len(applied) + 1 =>
    LET s == applied'[Len(applied')]
    IN /\ built'[s.slot] = Some(s.value)
       /\ \A k \in Slots \ {s.slot} : built'[k] = built[k]

C11_ParameterBuilder ==
  /\ [](NewIsEmpty /\ AnyOrder)
  /\ [][OwnSlotOnly]_vars

\* the four setters applied in an order that is not the order of the fields
C11_Witness ==
  /\ applied = << Setter("region", "KyivCity"), Setter("id", DocId),
                  Setter("institution_category",
                         "GeneralSecondaryEducationInstitutions"),
                  Setter("university_category",
                         "VocationalEducationInstitutions") >>
  /\ built = [id |-> Some(DocId), region |-> Some("KyivCity"),
              university_category |-> Some("VocationalEducationInstitutions"),
              institution_category |->
                Some("GeneralSecondaryEducationInstitutions")]

\* one setter applied to a fresh aggregate
C11_WitnessOne ==
  /\ applied = << Setter("university_category", "HigherEducationInstitutions") >>
  /\ built = [id |-> None, region |-> None,
              university_category |-> Some("HigherEducationInstitutions"),
              institution_category |-> None]


====
